---- MODULE Spec2Model ----
(***************************************************************************)
(* Model of the token_lottery Anchor program                               *)
(* (anchor/programs/token_lottery/src/lib.rs).                             *)
(*                                                                         *)
(* The program owns one TokenLottery account (a PDA with the fixed seed    *)
(* "token_lottery").  Every instruction is one Solana transaction step:    *)
(* the runtime takes a write lock on the account, so instructions on it    *)
(* are serialised, and an instruction that returns an error or panics is   *)
(* rolled back as a whole.  Each action below is therefore one whole       *)
(* handler call; its guard is the account validation of the handler's      *)
(* #[derive(Accounts)] struct (when that fails the handler never runs).    *)
(***************************************************************************)
EXTENDS Integers, Naturals, Sequences, FiniteSets, TLC

\* ------------------------------------------------------------------ bounds
\* The Clock sysvar's slot runs over 1..MaxSlot (slot 0 is the genesis slot,
\* in which no transaction executes).
MaxSlot == 3
\* ticket_price arguments of initialize_config run over 0..MaxPrice.
MaxPrice == 1
\* buy_ticket is called while total_tickets < MaxTickets.
MaxTickets == 3
\* The closed lotteries of SpecReveal have sold 0..MaxSold tickets, or more
\* tickets than a byte has values.
MaxSold == 5

\* ------------------------------------------------------- program constants
\* reveal_random_value[0] is a u8.
U8_MAX == 255

\* ------------------------------------------------------------------ inputs
\* Keys of the signers ("payer") that call the program.
Signers == {"alice", "bob"}
\* Pubkey::default(), the all-zero key (the address of the System Program).
DefaultPubkey == "default"
\* Keys of Switchboard randomness accounts a caller may pass.
RandomnessAccounts == {"r1", "r2"}
\* Every key a caller can pass as the unchecked randomness_account.
Pubkeys == RandomnessAccounts \cup {DefaultPubkey}
\* (variant: the first two bytes of the value are read)
Bytes_two_bytes == 0..(2 * U8_MAX + 1)

\* The bytes a resolved randomness value can start with.
Bytes == 0..U8_MAX
\* Outcome of get_value when the value is not resolvable at the given slot.
NotResolved == -1
\* What get_value(clock.slot) can answer.
OracleValues == {NotResolved} \cup Bytes
\* The seed_slot recorded for a call that reads none.
NoSeed == -1
\* The answer recorded for a call that did not reach get_value.
NotAsked == -2

VARIABLES
    initialized,      \* the token_lottery account exists (created by `init`)
    token_lottery,    \* the fields of the TokenLottery account
    lamports,         \* lamports transferred into the token_lottery account
    clock,            \* Clock::get()?.slot
    issued,           \* ticket indices of the ticket mints created, in order
    committed,        \* keys stored by successful commit_randomness calls
    last,             \* the instruction just executed in this slot, with its outcome
    oracle            \* observing: whether get_value's answers are recorded;
                      \* answer: what get_value answered to the instruction
                      \* just executed (NotAsked when not recorded or not asked)

vars == <<initialized, token_lottery, lamports, clock, issued, committed, last, oracle>>

\* ---------------------------------------------------------------- helpers
\* The account as it is before `init` (zeroed data).
EmptyLottery ==
    [winner |-> 0, winner_chosen |-> FALSE, start_time |-> 0, end_time |-> 0,
     lottery_pot_amount |-> 0, total_tickets |-> 0, ticket_price |-> 0,
     authority |-> DefaultPubkey, randomness_account |-> DefaultPubkey]

NoCall == [op |-> "none", err |-> "none", payer |-> DefaultPubkey,
           handle |-> DefaultPubkey, seed_slot |-> NoSeed]

Call(op, err, payer, handle, seed_slot) ==
    [op |-> op, err |-> err, payer |-> payer, handle |-> handle,
     seed_slot |-> seed_slot]

\* The TokenLottery value initialize_config writes.
NewLottery(payer, start_time, end_time, ticket_price) ==
    [winner |-> 0, winner_chosen |-> FALSE, start_time |-> start_time,
     end_time |-> end_time, lottery_pot_amount |-> 0, total_tickets |-> 0,
     ticket_price |-> ticket_price, authority |-> payer,
     randomness_account |-> DefaultPubkey]

\* (variant: the window is closed one slot late)
LotteryOpen_inclusive_end(slot, tl) == slot >= tl.start_time /\ slot <= tl.end_time

\* The two window checks of buy_ticket.
LotteryOpen(slot, tl) == slot >= tl.start_time /\ slot < tl.end_time

\* (variant: the authority is not checked)
IsAuthority_anyone(payer, tl) == TRUE

\* The authority check of commit_randomness and reveal_winner.
IsAuthority(payer, tl) == payer = tl.authority

\* (variant: any commit time before the current slot is accepted)
CommitTimingOk_any_earlier(seed_slot, slot) == seed_slot <= slot - 1

\* The timing check of commit_randomness.  `clock.slot - 1` is a u64
\* subtraction; the slot is at least 1 in every state (see MaxSlot), so it
\* never underflows here.
CommitTimingOk(seed_slot, slot) == seed_slot = slot - 1

\* (variant: every account parses)
Parses_always(key) == TRUE

\* RandomnessAccountData::parse(...) on the account at a key: the account at
\* the default key is the System Program's, never a randomness account.
Parses(key) == key \in RandomnessAccounts

\* (variant: the modulus is off by one)
WinnerOf_off_by_one(byte, total_tickets) == byte % (total_tickets + 1)

\* The winner derived from the first byte of the revealed value.
WinnerOf(byte, total_tickets) == byte % total_tickets

\* (variant: the count is not incremented)
SellTicket_no_increment(tl) == tl

\* The record after a successful buy_ticket: total_tickets += 1 (and nothing else).
SellTicket(tl) == [tl EXCEPT !.total_tickets = tl.total_tickets + 1]

\* ------------------------------------------------------- outcome of a call
buy_ticket_result(tl, slot, transfer_ok, issue_ok) ==
    IF ~LotteryOpen(slot, tl) THEN "LotteryNotOpen"
    ELSE IF ~transfer_ok THEN "TransferFailed"
    ELSE IF ~issue_ok THEN "IssuanceFailed"
    ELSE "Ok"

\* (variant: a handle can be stored only once)
commit_randomness_result_set_once(tl, slot, payer, handle, seed_slot) ==
    IF ~IsAuthority(payer, tl) THEN "Unauthorized"
    ELSE IF tl.randomness_account # DefaultPubkey THEN "RandomnessAlreadyRevealed"
    ELSE IF ~Parses(handle) THEN "Panic"
    ELSE IF ~CommitTimingOk(seed_slot, slot) THEN "RandomnessAlreadyRevealed"
    ELSE "Ok"

commit_randomness_result(tl, slot, payer, handle, seed_slot) ==
    IF ~IsAuthority(payer, tl) THEN "Unauthorized"
    ELSE IF ~Parses(handle) THEN "Panic"
    ELSE IF ~CommitTimingOk(seed_slot, slot) THEN "RandomnessAlreadyRevealed"
    ELSE "Ok"

\* (variant: winner_chosen is not checked)
reveal_winner_checks_no_winner_check(tl, slot, payer, handle) ==
    IF ~IsAuthority(payer, tl) THEN "Unauthorized"
    ELSE IF handle # tl.randomness_account THEN "RandomnessAlreadyRevealed"
    ELSE IF ~(slot >= tl.end_time) THEN "LotteryNotCompleted"
    ELSE IF ~Parses(handle) THEN "Panic"
    ELSE "Ok"

\* (variant: the handle is not compared with the stored one)
reveal_winner_checks_no_handle_check(tl, slot, payer, handle) ==
    IF ~IsAuthority(payer, tl) THEN "Unauthorized"
    ELSE IF ~(slot >= tl.end_time) THEN "LotteryNotCompleted"
    ELSE IF tl.winner_chosen THEN "WinnerChosen"
    ELSE IF ~Parses(handle) THEN "Panic"
    ELSE "Ok"

\* (variant: the handle is compared before the authority is checked)
reveal_winner_checks_handle_first(tl, slot, payer, handle) ==
    IF handle # tl.randomness_account THEN "RandomnessAlreadyRevealed"
    ELSE IF ~IsAuthority(payer, tl) THEN "Unauthorized"
    ELSE IF ~(slot >= tl.end_time) THEN "LotteryNotCompleted"
    ELSE IF tl.winner_chosen THEN "WinnerChosen"
    ELSE IF ~Parses(handle) THEN "Panic"
    ELSE "Ok"

\* (variant: the end of the sale window is not checked)
reveal_winner_checks_no_end_check(tl, slot, payer, handle) ==
    IF ~IsAuthority(payer, tl) THEN "Unauthorized"
    ELSE IF handle # tl.randomness_account THEN "RandomnessAlreadyRevealed"
    ELSE IF tl.winner_chosen THEN "WinnerChosen"
    ELSE IF ~Parses(handle) THEN "Panic"
    ELSE "Ok"

\* The four require! checks of reveal_winner, then the parse of the account.
reveal_winner_checks(tl, slot, payer, handle) ==
    IF ~IsAuthority(payer, tl) THEN "Unauthorized"
    ELSE IF handle # tl.randomness_account THEN "RandomnessAlreadyRevealed"
    ELSE IF ~(slot >= tl.end_time) THEN "LotteryNotCompleted"
    ELSE IF tl.winner_chosen THEN "WinnerChosen"
    ELSE IF ~Parses(handle) THEN "Panic"
    ELSE "Ok"

\* (variant: a value that is not resolved is read as 0 instead of failing)
reveal_winner_resolve_unresolved_as_zero(tl, value) ==
    IF tl.total_tickets = 0 THEN [err |-> "Panic", winner |-> tl.winner]
    ELSE [err |-> "Ok",
          winner |-> WinnerOf(IF value = NotResolved THEN 0 ELSE value, tl.total_tickets)]

\* (variant: the remainder by zero yields 0 instead of panicking)
reveal_winner_resolve_zero_tickets_ok(tl, value) ==
    IF value = NotResolved THEN [err |-> "RandomnessNotResolved", winner |-> tl.winner]
    ELSE IF tl.total_tickets = 0 THEN [err |-> "Ok", winner |-> 0]
    ELSE [err |-> "Ok", winner |-> WinnerOf(value, tl.total_tickets)]

\* get_value(clock.slot) and the winner computation: `% total_tickets` panics
\* (and the instruction is rolled back) when total_tickets is 0.  The result
\* is the error and the winner to store.
reveal_winner_resolve(tl, value) ==
    IF value = NotResolved THEN [err |-> "RandomnessNotResolved", winner |-> tl.winner]
    ELSE IF tl.total_tickets = 0 THEN [err |-> "Panic", winner |-> tl.winner]
    ELSE [err |-> "Ok", winner |-> WinnerOf(value, tl.total_tickets)]

\* The oracle record after an instruction that did not reach get_value.
Unasked == [oracle EXCEPT !.answer = NotAsked]

\* The outcome of get_value and the winner computation, with the answer given
\* (kept only when answers are recorded).
Resolved(tl, value) ==
    [res |-> reveal_winner_resolve(tl, value),
     answer |-> IF oracle.observing THEN value ELSE NotAsked]

\* ------------------------------------------------------------------- state
Init ==
    /\ initialized = FALSE
    /\ token_lottery = EmptyLottery
    /\ lamports = 0
    /\ clock = 1
    /\ issued = <<>>
    /\ committed = {}
    /\ last = NoCall
    /\ oracle = [observing |-> FALSE, answer |-> NotAsked]

\* The slot advances; the instructions of the previous slot are history.
Tick ==
    /\ clock < MaxSlot
    /\ clock' = clock + 1
    /\ last' = NoCall
    /\ oracle' = Unasked
    /\ UNCHANGED <<initialized, token_lottery, lamports, issued, committed>>

initialize_config(payer, start_time, end_time, ticket_price) ==
    /\ ~initialized
    /\ initialized' = TRUE
    /\ token_lottery' = NewLottery(payer, start_time, end_time, ticket_price)
    /\ last' = Call("initialize_config", "Ok", payer, DefaultPubkey, NoSeed)
    /\ oracle' = Unasked
    /\ UNCHANGED <<lamports, clock, issued, committed>>

\* (variant: the count is incremented once the window check passed, and a
\* failure of the transfer or of the issuance does not undo it)
buy_ticket_counts_before_issuing(payer, transfer_ok, issue_ok) ==
    /\ initialized
    /\ token_lottery.total_tickets < MaxTickets
    /\ LET err == buy_ticket_result(token_lottery, clock, transfer_ok, issue_ok) IN
       /\ last' = Call("buy_ticket", err, payer, DefaultPubkey, NoSeed)
       /\ IF err = "Ok"
          THEN /\ lamports' = lamports + token_lottery.ticket_price
               /\ issued' = Append(issued, token_lottery.total_tickets)
               /\ token_lottery' = SellTicket(token_lottery)
          ELSE /\ UNCHANGED <<lamports, issued>>
               /\ token_lottery' =
                    IF err = "LotteryNotOpen" THEN token_lottery
                    ELSE SellTicket(token_lottery)
    /\ oracle' = Unasked
    /\ UNCHANGED <<initialized, clock, committed>>

buy_ticket(payer, transfer_ok, issue_ok) ==
    /\ initialized
    /\ token_lottery.total_tickets < MaxTickets
    /\ \A i \in 1..Len(issued) : issued[i] # token_lottery.total_tickets
    /\ LET err == buy_ticket_result(token_lottery, clock, transfer_ok, issue_ok) IN
       /\ last' = Call("buy_ticket", err, payer, DefaultPubkey, NoSeed)
       /\ IF err = "Ok"
          THEN /\ lamports' = lamports + token_lottery.ticket_price
               /\ issued' = Append(issued, token_lottery.total_tickets)
               /\ token_lottery' = SellTicket(token_lottery)
          ELSE UNCHANGED <<lamports, issued, token_lottery>>
    /\ oracle' = Unasked
    /\ UNCHANGED <<initialized, clock, committed>>

commit_randomness(payer, handle, seed_slot) ==
    /\ initialized
    /\ LET err == commit_randomness_result(token_lottery, clock, payer, handle, seed_slot) IN
       /\ last' = Call("commit_randomness", err, payer, handle, seed_slot)
       /\ IF err = "Ok"
          THEN /\ token_lottery' = [token_lottery EXCEPT !.randomness_account = handle]
               /\ committed' = committed \cup {handle}
          ELSE UNCHANGED <<token_lottery, committed>>
    /\ oracle' = Unasked
    /\ UNCHANGED <<initialized, lamports, clock, issued>>

\* The oracle's get_value is consulted only by a call that passed the checks;
\* its answer is an input of that call, drawn from OracleValues (calls whose
\* answers lead to the same error and winner are the same step).
reveal_winner(payer, handle) ==
    /\ initialized
    /\ LET pre == reveal_winner_checks(token_lottery, clock, payer, handle) IN
       IF pre # "Ok"
       THEN /\ last' = Call("reveal_winner", pre, payer, handle, NoSeed)
            /\ oracle' = Unasked
            /\ UNCHANGED token_lottery
       ELSE \E out \in {Resolved(token_lottery, value) : value \in OracleValues} :
              /\ last' = Call("reveal_winner", out.res.err, payer, handle, NoSeed)
              /\ oracle' = [oracle EXCEPT !.answer = out.answer]
              /\ IF out.res.err = "Ok"
                 THEN token_lottery' =
                        [token_lottery EXCEPT !.winner = out.res.winner,
                                              !.winner_chosen = TRUE]
                 ELSE UNCHANGED token_lottery
    /\ UNCHANGED <<initialized, lamports, clock, issued, committed>>

InitializeConfig ==
    \E payer \in Signers, start_time \in 0..MaxSlot, end_time \in 0..MaxSlot,
       ticket_price \in 0..MaxPrice :
        initialize_config(payer, start_time, end_time, ticket_price)

BuyTicket ==
    \E payer \in Signers, transfer_ok \in BOOLEAN, issue_ok \in BOOLEAN :
        buy_ticket(payer, transfer_ok, issue_ok)

\* seed_slot is the seed_slot field of the account data passed (read only when
\* the data parses).
CommitRandomness ==
    \E payer \in Signers, handle \in Pubkeys, seed_slot \in 0..MaxSlot :
        commit_randomness(payer, handle, seed_slot)

RevealWinner ==
    \E payer \in Signers, handle \in Pubkeys : reveal_winner(payer, handle)

Next == Tick \/ InitializeConfig \/ BuyTicket \/ CommitRandomness \/ RevealWinner

Spec == Init /\ [][Next]_vars

\* ------------------------------------------- lotteries whose window closed
\* Ticket counts of the closed lotteries SpecReveal starts from: small ones,
\* and one above the number of values of a byte (U8_MAX + 1).
TicketCounts == (0..MaxSold) \cup {U8_MAX + 2}

\* 0, 1, ..., n-1: the indices issued by n successful buy_ticket calls.
IssuedUpTo(n) == [i \in 1..n |-> i - 1]

\* A lottery initialised by alice at slot 1 with the window [1, 2) and price 1
\* that sold its tickets in slot 1, seen at slot 2; the answers of get_value
\* are recorded.
InitReveal ==
    \E sold \in TicketCounts :
        /\ initialized = TRUE
        /\ token_lottery =
             [NewLottery("alice", 1, 2, 1) EXCEPT !.total_tickets = sold]
        /\ lamports = sold
        /\ clock = 2
        /\ issued = IssuedUpTo(sold)
        /\ committed = {}
        /\ last = NoCall
        /\ oracle = [observing |-> TRUE, answer |-> NotAsked]

NextReveal == Tick \/ BuyTicket \/ CommitRandomness \/ RevealWinner

SpecReveal == InitReveal /\ [][NextReveal]_vars

\* ================================================================= claims

\* C1: after N successful buy_ticket calls total_tickets is N and the ticket
\* indices handed to the issuance of the ticket mints are 0, 1, ..., N-1 in
\* order: none is used twice and none is skipped.
C1_SequentialIndices ==
    /\ token_lottery.total_tickets = Len(issued)
    /\ \A i \in 1..Len(issued) : issued[i] = i - 1

\* A second ticket has just been sold.
C1_Witness ==
    /\ last.op = "buy_ticket" /\ last.err = "Ok"
    /\ Len(issued) >= 2

\* C2: a buy_ticket call at a slot before start_time or at or after end_time
\* fails with LotteryNotOpen and leaves total_tickets as it was; a call at
\* slot == start_time (inside a non-empty window) passes the window check; a
\* successful call happened at start_time <= slot < end_time.
C2_WindowEnforced ==
    [][last'.op = "buy_ticket" =>
         /\ (clock < token_lottery.start_time \/ clock >= token_lottery.end_time)
              => /\ last'.err = "LotteryNotOpen"
                 /\ token_lottery'.total_tickets = token_lottery.total_tickets
         /\ (clock = token_lottery.start_time /\ clock < token_lottery.end_time)
              => last'.err # "LotteryNotOpen"
         /\ last'.err = "Ok"
              => /\ token_lottery.start_time <= clock
                 /\ clock < token_lottery.end_time]_vars

\* A sale is refused at slot == end_time of a lottery that sold tickets.
C2_Witness ==
    /\ last.op = "buy_ticket" /\ last.err = "LotteryNotOpen"
    /\ clock = token_lottery.end_time
    /\ token_lottery.total_tickets > 0

\* C3: lottery_pot_amount equals total_tickets * ticket_price in every state.
C3_PotMatchesSales ==
    token_lottery.lottery_pot_amount =
        token_lottery.total_tickets * token_lottery.ticket_price

\* C4: winner_chosen implies total_tickets > 0 and winner < total_tickets.
C4_WinnerInRange ==
    token_lottery.winner_chosen =>
        /\ token_lottery.total_tickets > 0
        /\ token_lottery.winner < token_lottery.total_tickets

\* A reveal has just chosen a winner other than ticket 0.
C4_Witness ==
    /\ last.op = "reveal_winner" /\ last.err = "Ok"
    /\ token_lottery.winner_chosen
    /\ token_lottery.winner > 0

\* C5: once winner_chosen is true, no step sets it back to false or changes
\* the stored winner.
C5_FinalizationPermanent ==
    [][token_lottery.winner_chosen =>
         /\ token_lottery'.winner_chosen
         /\ token_lottery'.winner = token_lottery.winner]_vars

\* After the winner was chosen, the authority has committed randomness again.
C5_Witness ==
    /\ token_lottery.winner_chosen
    /\ last.op = "commit_randomness" /\ last.err = "Ok"

\* C6 (as stated): once winner_chosen is true, every reveal_winner call fails
\* with WinnerChosen, whoever calls and whatever handle is passed.
C6_AlwaysWinnerChosen ==
    [][(token_lottery.winner_chosen /\ last'.op = "reveal_winner")
         => last'.err = "WinnerChosen"]_vars

\* C6 (amended): once winner_chosen is true, every reveal_winner call fails and
\* leaves the record unchanged: with Unauthorized when the caller is not the
\* authority, else with RandomnessAlreadyRevealed when the handle is not the
\* stored one, else with WinnerChosen.
C6_RevealFailsAfterFinalization ==
    [][(token_lottery.winner_chosen /\ last'.op = "reveal_winner") =>
         /\ token_lottery' = token_lottery
         /\ last'.err =
              IF last'.payer # token_lottery.authority THEN "Unauthorized"
              ELSE IF last'.handle # token_lottery.randomness_account
                   THEN "RandomnessAlreadyRevealed"
              ELSE "WinnerChosen"]_vars

\* The authority has repeated the reveal with the stored handle and was refused.
C6_Witness ==
    /\ token_lottery.winner_chosen
    /\ last.op = "reveal_winner" /\ last.err = "WinnerChosen"
    /\ last.payer = token_lottery.authority
    /\ last.handle = token_lottery.randomness_account

\* C7: a commit_randomness call by the authority, with a randomness account
\* whose seed_slot is s, succeeds (and stores the handle) iff s = slot - 1;
\* otherwise (s <= slot - 2 or s >= slot) it fails with
\* RandomnessAlreadyRevealed and the stored handle is unchanged.
C7_CommitTiming ==
    [][(/\ last'.op = "commit_randomness"
        /\ last'.payer = token_lottery.authority
        /\ last'.handle \in RandomnessAccounts) =>
         /\ (last'.err = "Ok") <=> (last'.seed_slot = clock - 1)
         /\ last'.err = "Ok"
              => token_lottery'.randomness_account = last'.handle
         /\ (last'.seed_slot + 2 <= clock \/ last'.seed_slot >= clock)
              => /\ last'.err = "RandomnessAlreadyRevealed"
                 /\ token_lottery'.randomness_account = token_lottery.randomness_account]_vars

\* The authority's commit was refused because the seed slot was too old.
C7_Witness ==
    /\ last.op = "commit_randomness" /\ last.err = "RandomnessAlreadyRevealed"
    /\ last.payer = token_lottery.authority
    /\ last.seed_slot + 2 <= clock

\* C8: a commit_randomness call by anyone but the authority fails with
\* Unauthorized and leaves the record unchanged, so the stored handle changes
\* only in a commit_randomness call by the authority.
C8_CommitUnauthorized ==
    [][/\ (last'.op = "commit_randomness" /\ last'.payer # token_lottery.authority)
            => /\ last'.err = "Unauthorized"
               /\ token_lottery' = token_lottery
       /\ token_lottery'.randomness_account # token_lottery.randomness_account
            => /\ last'.op = "commit_randomness"
               /\ last'.payer = token_lottery.authority]_vars

\* A caller other than the authority was refused with a handle whose timing
\* is valid.
C8_Witness ==
    /\ last.op = "commit_randomness" /\ last.err = "Unauthorized"
    /\ last.payer # token_lottery.authority
    /\ last.handle \in RandomnessAccounts
    /\ last.seed_slot = clock - 1

\* C9: a successful reveal_winner resolves the handle stored in the record,
\* and that handle was stored by a successful commit_randomness; no winner is
\* chosen before a commit succeeded.
C9_RevealAfterCommit ==
    /\ (last.op = "reveal_winner" /\ last.err = "Ok")
         => /\ last.handle = token_lottery.randomness_account
            /\ last.handle \in committed
    /\ token_lottery.winner_chosen => committed # {}

\* A reveal succeeded on the handle of the only commit made.
C9_Witness ==
    /\ last.op = "reveal_winner" /\ last.err = "Ok"
    /\ committed = {last.handle}

\* C10: once a commit_randomness call has succeeded, no buy_ticket call
\* succeeds.
C10_NoSaleAfterCommit ==
    [][(committed # {} /\ last'.op = "buy_ticket") => last'.err # "Ok"]_vars

\* C11: a reveal_winner call that passed the four checks and to which the
\* oracle answers "not resolvable at this slot" fails with
\* RandomnessNotResolved and changes nothing: the record (winner_chosen still
\* false, winner, total_tickets, stored handle), the lamports and the tickets
\* issued are as before.
C11_NotResolvedLeavesRecord ==
    [][(last'.op = "reveal_winner" /\ oracle'.answer = NotResolved) =>
         /\ last'.payer = token_lottery.authority
         /\ last'.handle = token_lottery.randomness_account
         /\ clock >= token_lottery.end_time
         /\ ~token_lottery.winner_chosen
         /\ last'.err = "RandomnessNotResolved"
         /\ token_lottery' = token_lottery
         /\ ~token_lottery'.winner_chosen
         /\ lamports' = lamports /\ issued' = issued /\ committed' = committed]_vars

\* A reveal of a lottery with tickets was refused because the value was not
\* resolved; no winner is chosen.
C11_Witness ==
    /\ last.op = "reveal_winner" /\ last.err = "RandomnessNotResolved"
    /\ oracle.answer = NotResolved
    /\ token_lottery.total_tickets > 0
    /\ ~token_lottery.winner_chosen

\* C12: reveal_winner reports the first violated precondition in the order
\* authority, handle, end of window, winner_chosen: Unauthorized when the
\* caller is not the authority; else RandomnessAlreadyRevealed when the handle
\* is not the stored one; else LotteryNotCompleted when slot < end_time; else
\* WinnerChosen when winner_chosen is set.
C12_CheckOrder ==
    [][last'.op = "reveal_winner" =>
         /\ last'.payer # token_lottery.authority => last'.err = "Unauthorized"
         /\ (/\ last'.payer = token_lottery.authority
             /\ last'.handle # token_lottery.randomness_account)
              => last'.err = "RandomnessAlreadyRevealed"
         /\ (/\ last'.payer = token_lottery.authority
             /\ last'.handle = token_lottery.randomness_account
             /\ clock < token_lottery.end_time)
              => last'.err = "LotteryNotCompleted"
         /\ (/\ last'.payer = token_lottery.authority
             /\ last'.handle = token_lottery.randomness_account
             /\ clock >= token_lottery.end_time
             /\ token_lottery.winner_chosen)
              => last'.err = "WinnerChosen"
         /\ last'.err # "Ok" => token_lottery' = token_lottery]_vars

\* A call that violates three preconditions at once (caller, handle, time)
\* was refused with the error of the first.
C12_Witness ==
    /\ last.op = "reveal_winner" /\ last.err = "Unauthorized"
    /\ last.payer # token_lottery.authority
    /\ last.handle # token_lottery.randomness_account
    /\ clock < token_lottery.end_time

\* C13: every record created by initialize_config has start_time < end_time
\* and ticket_price > 0 (a call with other arguments creates no record).
C13_ValidConfiguration ==
    initialized =>
        /\ token_lottery.start_time < token_lottery.end_time
        /\ token_lottery.ticket_price > 0

\* C14: after a successful reveal_winner no step changes any field of the
\* record.
C14_ReadOnlyAfterReveal ==
    [][token_lottery.winner_chosen => token_lottery' = token_lottery]_vars

\* C15: after a successful reveal_winner the stored winner is the remainder
\* of the first byte of the revealed value (0..255) divided by total_tickets:
\* byte = q * total_tickets + winner with 0 <= winner < total_tickets.
C15_WinnerIsByteModTickets ==
    (last.op = "reveal_winner" /\ last.err = "Ok") =>
        /\ oracle.answer \in 0..U8_MAX
        /\ token_lottery.total_tickets >= 1
        /\ token_lottery.winner >= 0
        /\ token_lottery.winner < token_lottery.total_tickets
        /\ \E q \in 0..U8_MAX :
             oracle.answer = q * token_lottery.total_tickets + token_lottery.winner

\* Byte 157 with 5 tickets has given winner 2.
C15_Witness ==
    /\ last.op = "reveal_winner" /\ last.err = "Ok"
    /\ oracle.answer = 157
    /\ token_lottery.total_tickets = 5
    /\ token_lottery.winner = 2

\* C16: a buy_ticket call that fails (window check, transfer or issuance)
\* leaves the record, the lamports and the tickets issued as they were; the
\* ticket count changes only in a successful buy_ticket call, by one, together
\* with the payment and the issuance of the ticket with the index read.
C16_BuyAllOrNothing ==
    [][/\ (last'.op = "buy_ticket" /\ last'.err # "Ok")
            => /\ token_lottery' = token_lottery
               /\ lamports' = lamports
               /\ issued' = issued
       /\ token_lottery'.total_tickets # token_lottery.total_tickets
            => /\ last'.op = "buy_ticket" /\ last'.err = "Ok"
               /\ token_lottery'.total_tickets = token_lottery.total_tickets + 1
               /\ lamports' = lamports + token_lottery.ticket_price
               /\ issued' = Append(issued, token_lottery.total_tickets)]_vars

\* Inside the open window, after a sale, a call failed in the issuance of the
\* ticket asset.
C16_Witness ==
    /\ last.op = "buy_ticket" /\ last.err = "IssuanceFailed"
    /\ token_lottery.total_tickets = 1
    /\ Len(issued) = 1

\* C17: while winner_chosen is false, a commit_randomness call by the
\* authority with valid timing succeeds also when a handle is already stored,
\* and stores the new handle; a reveal_winner call by the authority with a
\* handle committed earlier but no longer stored fails with
\* RandomnessAlreadyRevealed, and a successful reveal used the stored handle.
C17_RecommitReplacesHandle ==
    [][/\ (/\ last'.op = "commit_randomness"
           /\ ~token_lottery.winner_chosen
           /\ token_lottery.randomness_account # DefaultPubkey
           /\ last'.payer = token_lottery.authority
           /\ last'.handle \in RandomnessAccounts
           /\ last'.seed_slot = clock - 1)
            => /\ last'.err = "Ok"
               /\ token_lottery'.randomness_account = last'.handle
       /\ (/\ last'.op = "reveal_winner"
           /\ last'.payer = token_lottery.authority
           /\ last'.handle \in committed
           /\ last'.handle # token_lottery.randomness_account)
            => /\ last'.err = "RandomnessAlreadyRevealed"
               /\ token_lottery' = token_lottery
       /\ (last'.op = "reveal_winner" /\ last'.err = "Ok")
            => last'.handle = token_lottery.randomness_account]_vars

\* After a second commit, the authority's reveal with the handle committed
\* first was refused.
C17_Witness ==
    /\ last.op = "reveal_winner" /\ last.err = "RandomnessAlreadyRevealed"
    /\ last.payer = token_lottery.authority
    /\ last.handle \in committed
    /\ last.handle # token_lottery.randomness_account
    /\ clock >= token_lottery.end_time
    /\ ~token_lottery.winner_chosen

\* C18: once winner_chosen is true, every buy_ticket call fails with
\* LotteryNotOpen and total_tickets never changes again.
C18_NoSaleAfterFinalization ==
    [][token_lottery.winner_chosen =>
         /\ token_lottery'.total_tickets = token_lottery.total_tickets
         /\ last'.op = "buy_ticket" => last'.err = "LotteryNotOpen"]_vars

\* A sale was attempted after the winner was chosen, and refused.
C18_Witness ==
    /\ token_lottery.winner_chosen
    /\ last.op = "buy_ticket" /\ last.err = "LotteryNotOpen"

\* C19: in a lottery whose window has closed with total_tickets = 0, no step
\* sells a ticket or chooses a winner, and a reveal_winner call that passed
\* the checks and got a resolved value aborts (panic on the remainder by
\* zero, none of the program's error codes) leaving the record unchanged.
C19_EmptyLotteryNeverFinalized ==
    [][(/\ initialized
        /\ clock >= token_lottery.end_time
        /\ token_lottery.total_tickets = 0) =>
         /\ ~token_lottery'.winner_chosen
         /\ token_lottery'.total_tickets = 0
         /\ (last'.op = "reveal_winner" /\ oracle'.answer \in 0..U8_MAX)
              => /\ last'.err = "Panic"
                 /\ token_lottery' = token_lottery]_vars

\* A reveal of a lottery without tickets got a resolved value and aborted.
C19_Witness ==
    /\ last.op = "reveal_winner" /\ last.err = "Panic"
    /\ oracle.answer \in 0..U8_MAX
    /\ token_lottery.total_tickets = 0
    /\ clock >= token_lottery.end_time
    /\ ~token_lottery.winner_chosen

\* C20: the stored winner is at most 255 in every state, so with more than
\* 256 tickets sold no ticket of index 256 or more is ever the winner.
C20_WinnerFitsInByte ==
    /\ token_lottery.winner <= U8_MAX
    /\ (token_lottery.winner_chosen /\ token_lottery.total_tickets > U8_MAX + 1)
         => token_lottery.winner < U8_MAX + 1

\* A lottery with more than 256 tickets has chosen ticket 255, the highest
\* index a byte can select.
C20_Witness ==
    /\ token_lottery.winner_chosen
    /\ token_lottery.total_tickets > U8_MAX + 1
    /\ token_lottery.winner = U8_MAX

====
